---- MODULE Spec2Model ----
(***************************************************************************)
(* A model of dryoc's protected-memory module (src/src/protected.rs): the  *)
(* guarded page-aligned allocator, the Protected<A, PM, LM> type-state     *)
(* wrapper with its lock / protect transitions, and the release discipline *)
(* (Drop for Protected, the buffer's zeroize-on-drop, Vec's deallocation). *)
(*                                                                         *)
(* The OS is modelled at page granularity.  Every allocation is addressed  *)
(* relative to the base pointer posix_memalign returned (`out`), which is  *)
(* page aligned: byte offset o lies in page (o \div PageSize) + 1.         *)
(* Every OS call may fail; the calls that fail during one operation are    *)
(* chosen by the environment (the set `fails` of call sites).              *)
(***************************************************************************)
EXTENDS Integers, Sequences, FiniteSets, TLC

\* ---------------------------------------------------------------- bounds
PageSize == 4                  \* sysconf(_SC_PAGE_SIZE), scaled down
MaxLen == PageSize + 1         \* largest buffer length: one byte into a 2nd page
MaxByte == 1                   \* byte values are 0..MaxByte
MaxAllocs == 3                 \* allocations that can be live at once
MaxSteps == 4                  \* operations on one handle before its release
UsizeMax == 1000000            \* usize::MAX, scaled: larger than any mapping

Byte == 0..MaxByte
AllocIds == 1..MaxAllocs
NoAlloc == 0                   \* the dangling pointer of a Vec with capacity 0

Max(a, b) == IF a >= b THEN a ELSE b
SeqOf(v, n) == [i \in 1..n |-> v]
AllZero(s) == \A i \in DOMAIN s : s[i] = 0

Sites == {"posix_memalign", "guard_mlock", "guard_mprotect",
          "mlock", "munlock", "mprotect",
          "drop_mprotect", "drop_munlock",
          "dealloc_munlock", "dealloc_mprotect"}
\* The environment of one operation: no OS call fails, or the calls of one
\* site fail.
FailPlans == {{}} \cup {{s} : s \in Sites}

\* ------------------------------------------------------------- the world
\* The state an operation threads through its steps:
\*   mem   : allocation id -> the allocation (pages' permission and lock
\*           state, the interior's bytes)
\*   log   : the OS-level events of the operation, in order
\*   st    : "ok" | "panic" (unwinding) | "fault" (SIGSEGV) | "abort"
\*   rc    : the last OS wrapper's result (0, or -1 for Err)
\*   ret   : the last returned value (an allocation id, a buffer, a result)
\*   fails : the call sites whose OS call fails; dbg: overflow checks on
FreeSlot == [live |-> FALSE, size |-> 0, total |-> 0, aft |-> 0,
             perm |-> <<>>, lock |-> <<>>, bytes |-> <<>>]

Ev(o, id, off, len, arg, site, rc, snap) ==
    [op |-> o, id |-> id, off |-> off, len |-> len, arg |-> arg,
     site |-> site, rc |-> rc, snap |-> snap]

Emit(w, e) == [w EXCEPT !.log = Append(@, e)]

\* Sequencing: the rest of a function, K, runs on the world its last call
\* left.
Then(w, K(_)) == K(w)

\* The pages an OS call on [off, off + len) touches (1-based page numbers).
PagesOf(off, len) ==
    IF len = 0 THEN {}
    ELSE ((off \div PageSize) + 1) .. (((off + len - 1) \div PageSize) + 1)

Mapped(w, id, off, len) ==
    /\ id \in AllocIds
    /\ w.mem[id].live
    /\ off + len <= w.mem[id].total

\* panic!(): starts unwinding; a panic while unwinding aborts the process.
Panic(w) == [w EXCEPT !.st = IF @ = "panic" THEN "abort" ELSE "panic"]

\* Whether the OS refuses the call made at `site` now: the site is in the
\* plan, or the plan lets the first call of the site through and refuses
\* the later ones (the locked-memory limit is reached, say).
LaterOf(site) == CASE site = "mlock" -> "mlock_again"
                   [] site = "mprotect" -> "mprotect_again"
                   [] OTHER -> "never"
Refused(w, site) ==
    \/ site \in w.fails
    \/ /\ LaterOf(site) \in w.fails
       /\ \E k \in DOMAIN w.log : w.log[k].site = site /\ w.log[k].rc = "ok"

\* libc::mlock(ptr, len): pins the pages of [ptr, ptr + len); len = 0 pins
\* nothing and succeeds.
dryoc_mlock(w, id, off, len, site) ==
    IF Refused(w, site) \/ (len > 0 /\ ~Mapped(w, id, off, len))
    THEN Emit([w EXCEPT !.rc = -1],
              Ev("mlock", id, off, len, "", site, "err", FreeSlot))
    ELSE IF len = 0
    THEN Emit([w EXCEPT !.rc = 0],
              Ev("mlock", id, off, len, "", site, "ok", FreeSlot))
    ELSE Emit([w EXCEPT !.rc = 0,
                        !.mem[id].lock = [p \in DOMAIN @ |->
                            IF p \in PagesOf(off, len) THEN TRUE ELSE @[p]]],
              Ev("mlock", id, off, len, "", site, "ok", FreeSlot))

\* libc::munlock(ptr, len).
dryoc_munlock(w, id, off, len, site) ==
    IF site \in w.fails \/ (len > 0 /\ ~Mapped(w, id, off, len))
    THEN Emit([w EXCEPT !.rc = -1],
              Ev("munlock", id, off, len, "", site, "err", FreeSlot))
    ELSE IF len = 0
    THEN Emit([w EXCEPT !.rc = 0],
              Ev("munlock", id, off, len, "", site, "ok", FreeSlot))
    ELSE Emit([w EXCEPT !.rc = 0,
                        !.mem[id].lock = [p \in DOMAIN @ |->
                            IF p \in PagesOf(off, len) THEN FALSE ELSE @[p]]],
              Ev("munlock", id, off, len, "", site, "ok", FreeSlot))

\* libc::mprotect(ptr, len, prot): an unaligned ptr is EINVAL, len = 0 on
\* an aligned ptr changes nothing and succeeds, a range that is not mapped
\* is ENOMEM, and the OS may refuse any non-empty range.
c_mprotect(w, id, off, len, prot, site) ==
    IF id = NoAlloc \/ (len > 0 /\ (Refused(w, site) \/ ~Mapped(w, id, off, len)))
    THEN Emit([w EXCEPT !.rc = -1],
              Ev("mprotect", id, off, len, prot, site, "err", FreeSlot))
    ELSE IF len = 0
    THEN Emit([w EXCEPT !.rc = 0],
              Ev("mprotect", id, off, len, prot, site, "ok", FreeSlot))
    ELSE Emit([w EXCEPT !.rc = 0,
                        !.mem[id].perm = [p \in DOMAIN @ |->
                            IF p \in PagesOf(off, len) THEN prot ELSE @[p]]],
              Ev("mprotect", id, off, len, prot, site, "ok", FreeSlot))

\* The length the three wrappers pass: data.len() - 1.
LenMinusOne(len) == len - 1

\* dryoc_mprotect_readonly / _readwrite / _noaccess: mprotect(ptr,
\* data.len() - 1, prot).  On an empty slice the subtraction underflows: a
\* panic with overflow checks, else it wraps to usize::MAX and the OS
\* refuses the range.
dryoc_mprotect(w, id, off, len, prot, site) ==
    IF len = 0
    THEN IF w.dbg THEN Panic([w EXCEPT !.rc = -1])
         ELSE c_mprotect(w, id, off, UsizeMax, prot, site)
    ELSE c_mprotect(w, id, off, LenMinusOne(len), prot, site)

dryoc_mprotect_readonly(w, id, off, len, site) ==
    dryoc_mprotect(w, id, off, len, "RO", site)

\* A widening wrapper that asks for PROT_READ alone.
dryoc_mprotect_readwriteAsksRead(w, id, off, len, site) ==
    dryoc_mprotect(w, id, off, len, "RO", site)

dryoc_mprotect_readwrite(w, id, off, len, site) ==
    dryoc_mprotect(w, id, off, len, "RW", site)

dryoc_mprotect_noaccess(w, id, off, len, site) ==
    dryoc_mprotect(w, id, off, len, "NA", site)

\* ------------------------------------------------- PageAlignedAllocator
\* layout.size() + (pagesize - layout.size() % pagesize)
PadTo(n) == n + (PageSize - (n % PageSize))

\* let size = layout.size() + (pagesize - layout.size() % pagesize)
\*            + 2 * pagesize;
AllocSize(n) == PadTo(n) + 2 * PageSize

\* let aft_protected_region_start =
\*     layout.size() + (pagesize - layout.size() % pagesize) + pagesize;
AftStart(n) == PadTo(n) + PageSize

\* out.offset(pagesize): where the slice handed back starts.
InteriorOff == PageSize

HasFreeId(w) == \E i \in AllocIds : ~w.mem[i].live
FreeId(w) == CHOOSE i \in AllocIds :
                 /\ ~w.mem[i].live
                 /\ \A j \in AllocIds : j < i => w.mem[j].live

\* Allocator::allocate.  posix_memalign's memory is fresh (modelled as
\* zero bytes: it holds nothing of this program).  The four guard-page
\* calls are logged and their failure ignored.
allocate(w, n) ==
    IF "posix_memalign" \in w.fails \/ ~HasFreeId(w)
    THEN Emit([w EXCEPT !.rc = -1],
              Ev("alloc", NoAlloc, 0, n, "", "posix_memalign", "err", FreeSlot))
    ELSE LET id == FreeId(w)
             fresh == [live |-> TRUE, size |-> n, total |-> AllocSize(n),
                       aft |-> AftStart(n),
                       perm |-> SeqOf("RW", AllocSize(n) \div PageSize),
                       lock |-> SeqOf(FALSE, AllocSize(n) \div PageSize),
                       bytes |-> SeqOf(0, n)]
             w0 == Emit([w EXCEPT !.mem[id] = fresh],
                        Ev("alloc", id, 0, AllocSize(n), "", "posix_memalign",
                           "ok", FreeSlot))
             w1 == dryoc_mlock(w0, id, 0, PageSize, "guard_mlock")
             w2 == dryoc_mprotect_noaccess(w1, id, 0, PageSize, "guard_mprotect")
             w3 == dryoc_mlock(w2, id, AftStart(n), PageSize, "guard_mlock")
             w4 == dryoc_mprotect_noaccess(w3, id, AftStart(n), PageSize,
                                           "guard_mprotect")
         IN [w4 EXCEPT !.rc = 0, !.ret = id]

\* A deallocate that looks for the aft guard page right after the
\* requested size, without the padding allocate put before it.
deallocateUnpaddedAft(w, id) ==
    LET n == w.mem[id].size
        base == InteriorOff - PageSize
        w1 == dryoc_munlock(w, id, base, PageSize, "dealloc_munlock")
        w2 == dryoc_mprotect_readwrite(w1, id, base, PageSize, "dealloc_mprotect")
        w3 == dryoc_munlock(w2, id, base + n + PageSize, PageSize,
                            "dealloc_munlock")
    IN Then(dryoc_mprotect_readwrite(w3, id, base + n + PageSize, PageSize,
                                     "dealloc_mprotect"),
            LAMBDA w4 :
                Emit([w4 EXCEPT !.mem[id] = FreeSlot, !.rc = 0],
                     Ev("free", id, base, n, "", "free", "ok", w4.mem[id])))

\* Allocator::deallocate(ptr, layout): ptr.offset(-pagesize) is the base;
\* the guard pages are unlocked and made read-write (failures logged and
\* ignored), then the base is freed.  The free event keeps what the
\* allocation was at that moment.
deallocate(w, id) ==
    LET n == w.mem[id].size
        base == InteriorOff - PageSize
        w1 == dryoc_munlock(w, id, base, PageSize, "dealloc_munlock")
        w2 == dryoc_mprotect_readwrite(w1, id, base, PageSize, "dealloc_mprotect")
        w3 == dryoc_munlock(w2, id, base + AftStart(n), PageSize, "dealloc_munlock")
    IN Then(dryoc_mprotect_readwrite(w3, id, base + AftStart(n), PageSize,
                                     "dealloc_mprotect"),
            LAMBDA w4 :
                Emit([w4 EXCEPT !.mem[id] = FreeSlot, !.rc = 0],
                     Ev("free", id, base, n, "", "free", "ok", w4.mem[id])))

\* ------------------------------------------------ Vec<u8, PageAligned..>
\* A buffer (HeapByteArray<LENGTH> or HeapBytes) is its Vec: the allocation
\* it points into (NoAlloc while the capacity is 0), its length, capacity.
EmptyVec(kind) == [kind |-> kind, id |-> NoAlloc, len |-> 0, cap |-> 0]

Writable(w, id, i) ==
    w.mem[id].perm[((InteriorOff + i) \div PageSize) + 1] = "RW"
Readable(w, id, i) ==
    w.mem[id].perm[((InteriorOff + i) \div PageSize) + 1] \in {"RW", "RO"}

\* A store of vals at byte `from` of the interior, in address order: the
\* first byte in a page that is not writable raises SIGSEGV.
Store(w, id, from, vals, tag) ==
    IF Len(vals) = 0 \/ id = NoAlloc THEN w
    ELSE LET idx == from .. (from + Len(vals) - 1)
             bad == {i \in idx : ~Writable(w, id, i)}
             stop == IF bad = {} THEN from + Len(vals)
                     ELSE CHOOSE i \in bad : \A j \in bad : i <= j
         IN Emit([w EXCEPT !.mem[id].bytes = [k \in DOMAIN @ |->
                              IF k - 1 >= from /\ k - 1 < stop
                              THEN vals[k - from] ELSE @[k]],
                           !.st = IF bad = {} THEN @ ELSE "fault"],
                 Ev(tag, id, from, Len(vals), "", "",
                    IF bad = {} THEN "ok" ELSE "fault", FreeSlot))

\* #[derive(Zeroize)] on the tuple struct calls .zeroize() on the Vec,
\* which (no Zeroize impl exists for a Vec with a custom allocator)
\* derefs to the slice: the bytes [0, len) are zeroed, the length and the
\* spare capacity are left as they are.
Zeroize(w, b) == Store(w, b.id, 0, SeqOf(0, b.len), "zero")

\* A grow that hands out the new block without copying the old one into it.
MoveIntoWithoutCopy(w1, b, nb) ==
    IF b.cap = 0 THEN [w1 EXCEPT !.ret = nb]
    ELSE Then(deallocate(w1, b.id),
              LAMBDA w3 : [w3 EXCEPT !.ret = nb])

\* Allocator::grow as Vec uses it (this allocator keeps the default):
\* copy the old block into the new one, deallocate the old one.
MoveInto(w1, b, nb) ==
    IF b.cap = 0 THEN [w1 EXCEPT !.ret = nb]
    ELSE Then(deallocate(Store(w1, nb.id, 0, w1.mem[b.id].bytes, "copy"), b.id),
              LAMBDA w3 : [w3 EXCEPT !.ret = nb])

\* A growth that carries on with the old block when the allocator refuses.
VecGrowToIgnoresFailure(w, b, required) ==
    Then(allocate(w, Max(2 * b.cap, required)),
         LAMBDA w1 :
             IF w1.rc # 0 THEN [w1 EXCEPT !.ret = b]
             ELSE MoveInto(w1, b, [b EXCEPT !.id = w1.ret,
                                            !.cap = Max(2 * b.cap, required)]))

\* Vec's growth (reserve -> grow_amortized -> Allocator::grow).  A failed
\* allocation is handle_alloc_error: the process aborts.  Vec's 8-byte
\* minimum capacity is left out: it is far below a page.
VecGrowTo(w, b, required) ==
    Then(allocate(w, Max(2 * b.cap, required)),
         LAMBDA w1 :
             IF w1.rc # 0 THEN [w1 EXCEPT !.st = "abort"]
             ELSE MoveInto(w1, b, [b EXCEPT !.id = w1.ret,
                                            !.cap = Max(2 * b.cap, required)]))

\* Vec::resize(new_len, value): grows (filling with value) or truncates
\* (the bytes past new_len stay in the spare capacity).
VecResize(w, b, new_len, value) ==
    IF new_len > b.len
    THEN Then(IF new_len > b.cap THEN VecGrowTo(w, b, new_len)
              ELSE [w EXCEPT !.ret = b],
              LAMBDA w1 :
                  IF w1.st # "ok" THEN w1
                  ELSE [Store(w1, w1.ret.id, b.len,
                              SeqOf(value, new_len - b.len), "fill")
                        EXCEPT !.ret = [w1.ret EXCEPT !.len = new_len]])
    ELSE [w EXCEPT !.ret = [b EXCEPT !.len = new_len]]

\* impl Default for HeapByteArray<LENGTH>: Vec::new_in; v.resize(LENGTH, 0)
HeapByteArrayDefault(w, n) == VecResize(w, EmptyVec("array"), n, 0)

\* impl Default for HeapBytes: Vec::new_in (no allocation)
HeapBytesDefault(w) == [w EXCEPT !.ret = EmptyVec("bytes")]

\* A::default()
Default(w, kind, n) ==
    IF kind = "array" THEN HeapByteArrayDefault(w, n) ELSE HeapBytesDefault(w)

\* The drop glue of the buffer field: #[zeroize(drop)] zeroizes it, then
\* Vec's drop deallocates when the capacity is not 0.
BufferDrop(w, b) ==
    IF w.st \in {"fault", "abort"} THEN w
    ELSE Then(Zeroize(w, b),
              LAMBDA w1 :
                  IF w1.st = "fault" \/ b.cap = 0 THEN w1
                  ELSE deallocate(w1, b.id))

\* A Drop::drop that carries on when munlock fails.
ProtectedDropBodyIgnoresUnlock(w, b) ==
    IF b.len > 0
    THEN Then(dryoc_mprotect_readwrite(w, b.id, InteriorOff, b.len,
                                       "drop_mprotect"),
         LAMBDA w1 :
             IF w1.rc # 0 THEN Panic(w1)
             ELSE Then(Zeroize(w1, b),
                  LAMBDA w2 :
                      IF w2.st = "fault" THEN w2
                      ELSE dryoc_munlock(w2, b.id, InteriorOff, b.len,
                                         "drop_munlock")))
    ELSE w

\* Drop::drop for Protected<A, PM, LM>.
ProtectedDropBody(w, b) ==
    IF b.len > 0
    THEN Then(dryoc_mprotect_readwrite(w, b.id, InteriorOff, b.len,
                                       "drop_mprotect"),
         LAMBDA w1 :
             IF w1.rc # 0 THEN Panic(w1)                   \* panic!("mprotect")
             ELSE Then(Zeroize(w1, b),                     \* self.a.zeroize()
                  LAMBDA w2 :
                      IF w2.st = "fault" THEN w2
                      ELSE Then(dryoc_munlock(w2, b.id, InteriorOff, b.len,
                                              "drop_munlock"),
                           LAMBDA w3 :
                               IF w3.rc # 0 THEN Panic(w3) \* panic!("munlock")
                               ELSE w3)))
    ELSE w

\* Dropping a Protected value: Drop::drop, then the drop glue of its
\* field `a`, which also runs when Drop::drop panicked (unwinding drops
\* the fields), unless the process is gone.
ProtectedDrop(w, b) ==
    IF w.st \in {"fault", "abort"} THEN w
    ELSE BufferDrop(ProtectedDropBody(w, b), b)

\* ------------------------------------------------ Protected<A, PM, LM>
\* A handle: its buffer `a` and the two phantom type parameters.
Buf(s) == [kind |-> s.kind, id |-> s.id, len |-> s.len, cap |-> s.cap]
Wrap(b, pm, lm) == [kind |-> b.kind, id |-> b.id, len |-> b.len,
                    cap |-> b.cap, pm |-> pm, lm |-> lm]
OkOf(b, pm, lm) == [tag |-> "Ok", hv |-> Wrap(b, pm, lm)]
ErrOf(kind) == [tag |-> "Err", hv |-> Wrap(EmptyVec(kind), "RW", "Unlocked")]

\* A transition whose error path forgets `self` instead of dropping it.
SwapIntoNewKeepsSelf(w, s, new, pm, lm) ==
    IF w.st = "ok" /\ w.rc = 0
    THEN Then(ProtectedDrop(w, new),
              LAMBDA w3 : [w3 EXCEPT !.ret = OkOf(Buf(s), pm, lm)])
    ELSE Then(ProtectedDrop(w, new),
              LAMBDA w3 : [w3 EXCEPT !.ret = ErrOf(s.kind)])

\* A transition whose consumed handle still refers to the caller's buffer
\* when Drop::drop runs on it.
SwapIntoNewAliasesSelf(w, s, new, pm, lm) ==
    IF w.st = "ok" /\ w.rc = 0
    THEN Then(ProtectedDrop(ProtectedDropBody(w, Buf(s)), new),
              LAMBDA w3 : [w3 EXCEPT !.ret = OkOf(Buf(s), pm, lm)])
    ELSE Then(ProtectedDrop(ProtectedDrop(w, new), Buf(s)),
              LAMBDA w3 : [w3 EXCEPT !.ret = ErrOf(s.kind)])

\* A transition that forgets mem::swap: it returns `new`, still around the
\* default buffer, and drops `self` with the caller's bytes.
SwapIntoNewForgetsSwap(w, s, new, pm, lm) ==
    IF w.st = "ok" /\ w.rc = 0
    THEN Then(ProtectedDrop(w, Buf(s)),
              LAMBDA w3 : [w3 EXCEPT !.ret = OkOf(new, pm, lm)])
    ELSE Then(ProtectedDrop(ProtectedDrop(w, new), Buf(s)),
              LAMBDA w3 : [w3 EXCEPT !.ret = ErrOf(s.kind)])

\* What the five transitions share after their OS call, with `new` the
\* handle built around A::default() and `self` the consumed one:
\*   the call succeeded: mem::swap(&mut new.a, &mut self.a) and Ok(new);
\*     self, which now owns the default buffer, is dropped on return;
\*   `?` on Err: returns the io::Error; new, then self are dropped;
\*   the call panicked (overflow check): unwinding drops new, then self.
SwapIntoNew(w, s, new, pm, lm) ==
    IF w.st = "ok" /\ w.rc = 0
    THEN Then(ProtectedDrop(w, new),
              LAMBDA w3 : [w3 EXCEPT !.ret = OkOf(Buf(s), pm, lm)])
    ELSE Then(ProtectedDrop(ProtectedDrop(w, new), Buf(s)),
              LAMBDA w3 : [w3 EXCEPT !.ret = ErrOf(s.kind)])

\* An unlock that returns a ReadWrite handle whatever PM was.
munlockResetsPermission(w, s) ==
    Then(Default(w, s.kind, s.len),
         LAMBDA w1 :
             IF w1.st # "ok" THEN w1
             ELSE SwapIntoNew(dryoc_munlock(w1, s.id, InteriorOff, s.len,
                                            "munlock"),
                              s, w1.ret, "RW", "Unlocked"))

\* Unlock::munlock for Protected<A, PM, LM> (any LM)
munlock(w, s) ==
    Then(Default(w, s.kind, s.len),
         LAMBDA w1 :
             IF w1.st # "ok" THEN w1
             ELSE SwapIntoNew(dryoc_munlock(w1, s.id, InteriorOff, s.len,
                                            "munlock"),
                              s, w1.ret, s.pm, "Unlocked"))

\* Lock::mlock for Protected<A, PM, Unlocked>
mlock(w, s) ==
    Then(Default(w, s.kind, s.len),
         LAMBDA w1 :
             IF w1.st # "ok" THEN w1
             ELSE SwapIntoNew(dryoc_mlock(w1, s.id, InteriorOff, s.len, "mlock"),
                              s, w1.ret, s.pm, "Locked"))

\* ProtectReadOnly::mprotect_readonly
mprotect_readonly(w, s) ==
    Then(Default(w, s.kind, s.len),
         LAMBDA w1 :
             IF w1.st # "ok" THEN w1
             ELSE SwapIntoNew(dryoc_mprotect_readonly(w1, s.id, InteriorOff,
                                                      s.len, "mprotect"),
                              s, w1.ret, "RO", s.lm))

\* ProtectReadWrite::mprotect_readwrite
mprotect_readwrite(w, s) ==
    Then(Default(w, s.kind, s.len),
         LAMBDA w1 :
             IF w1.st # "ok" THEN w1
             ELSE SwapIntoNew(dryoc_mprotect_readwrite(w1, s.id, InteriorOff,
                                                       s.len, "mprotect"),
                              s, w1.ret, "RW", s.lm))

\* ProtectNoAccess::mprotect_noaccess
mprotect_noaccess(w, s) ==
    Then(Default(w, s.kind, s.len),
         LAMBDA w1 :
             IF w1.st # "ok" THEN w1
             ELSE SwapIntoNew(dryoc_mprotect_noaccess(w1, s.id, InteriorOff,
                                                      s.len, "mprotect"),
                              s, w1.ret, "NA", s.lm))

\* Lockable::mlock for HeapByteArray / HeapBytes: wrap the buffer as
\* Protected<_, ReadWrite, Unlocked> and lock it.
Lockable_mlock(w, b) == mlock(w, Wrap(b, "RW", "Unlocked"))

\* Lockable::mlock on a HeapBytes that holds n bytes: HeapBytes::default(),
\* resize(n, value), mlock().
HeapBytes_mlock(w, n, value) ==
    Then(VecResize(w, EmptyVec("bytes"), n, value),
         LAMBDA w1 : IF w1.st # "ok" THEN w1 ELSE Lockable_mlock(w1, w1.ret))

\* NewLocked::new_locked: Self::default().mlock()
new_locked(w, kind, n) ==
    Then(Default(w, kind, n),
         LAMBDA w1 : IF w1.st # "ok" THEN w1 ELSE Lockable_mlock(w1, w1.ret))

\* impl Default for Protected<HeapBytes, ReadWrite, Locked>:
\* HeapBytes::new_locked().expect("mlock failed in default")
Protected_default(w) ==
    Then(new_locked(w, "bytes", 0),
         LAMBDA w1 :
             IF w1.st = "ok" /\ w1.ret.tag = "Err" THEN Panic(w1) ELSE w1)

\* A gen_locked that fills the buffer first and locks it afterwards.
gen_lockedFillsFirst(w, kind, n, random) ==
    Then(Default(w, kind, n),
         LAMBDA w1 :
             IF w1.st # "ok" THEN w1
             ELSE Lockable_mlock(Store(w1, w1.ret.id, 0,
                                       SubSeq(random, 1, w1.ret.len), "random"),
                                 w1.ret))

\* NewLocked::gen_locked: Self::default().mlock()?, then
\* copy_randombytes(res.as_mut_slice()).
gen_locked(w, kind, n, random) ==
    Then(new_locked(w, kind, n),
         LAMBDA w1 :
             IF w1.st # "ok" \/ w1.ret.tag = "Err" THEN w1
             ELSE [Store(w1, w1.ret.hv.id, 0,
                         SubSeq(random, 1, w1.ret.hv.len), "random")
                   EXCEPT !.ret = w1.ret])

\* NewLocked::from_slice_locked: Self::default().mlock()?, then
\* res.as_mut_slice().copy_from_slice(other), which panics when the
\* lengths differ (res is then dropped by the unwinding).
from_slice_locked(w, kind, n, other) ==
    Then(new_locked(w, kind, n),
         LAMBDA w1 :
             IF w1.st # "ok" \/ w1.ret.tag = "Err" THEN w1
             ELSE IF Len(other) # w1.ret.hv.len
             THEN ProtectedDrop(Panic(w1), Buf(w1.ret.hv))
             ELSE [Store(w1, w1.ret.hv.id, 0, other, "secret")
                   EXCEPT !.ret = w1.ret])

\* From<StackByteArray<LENGTH>> for HeapByteArray<LENGTH>: default, then
\* copy_from_slice (the stack copy is zeroized).
FromStack(w, content) ==
    Then(HeapByteArrayDefault(w, Len(content)),
         LAMBDA w1 :
             IF w1.st # "ok" THEN w1
             ELSE [Store(w1, w1.ret.id, 0, content, "secret")
                   EXCEPT !.ret = w1.ret])

\* StackByteArray::mlock
Stack_mlock(w, content) ==
    Then(FromStack(w, content),
         LAMBDA w1 :
             IF w1.st # "ok" THEN w1
             ELSE mlock(w1, Wrap(w1.ret, "RW", "Unlocked")))

\* StackByteArray::mprotect_readonly:
\* protected.mlock().and_then(|p| p.mprotect_readonly())
Stack_mprotect_readonly(w, content) ==
    Then(Stack_mlock(w, content),
         LAMBDA w1 :
             IF w1.st # "ok" \/ w1.ret.tag = "Err" THEN w1
             ELSE mprotect_readonly(w1, w1.ret.hv))

\* ResizableBytes::resize for Protected<A, ReadWrite, LM>, A = HeapBytes:
\* self.a.resize(new_len, value), i.e. Vec::resize.  It returns nothing;
\* the handle afterwards is the same handle around the resized Vec.
resize(w, s, new_len, value) ==
    Then(VecResize(w, Buf(s), new_len, value),
         LAMBDA w1 :
             IF w1.st # "ok" THEN w1
             ELSE [w1 EXCEPT !.ret = OkOf(w1.ret, s.pm, s.lm)])

\* ---------------------------------------------------------- accessors
\* The byte accessors a handle's type offers.  AsRef<[u8]> and AsMut<[u8]>
\* are implemented for every PM; Bytes (as_slice) and ByteArray (as_array)
\* for ReadOnly and ReadWrite; MutBytes (as_mut_slice), MutByteArray and
\* AsMut<[u8; LENGTH]> for ReadWrite.
ReadAccessors(kind, pm) ==
    {"as_ref"}
    \cup (IF pm \in {"RO", "RW"} THEN {"as_slice"} ELSE {})
    \cup (IF pm \in {"RO", "RW"} /\ kind = "array" THEN {"as_array"} ELSE {})

WriteAccessors(kind, pm) ==
    {"as_mut"}
    \cup (IF pm = "RW" THEN {"as_mut_slice"} ELSE {})
    \cup (IF pm = "RW" /\ kind = "array" THEN {"as_mut_array"} ELSE {})

\* ------------------------------------------------------ the program
VARIABLES mem,    \* the OS's view: allocation id -> allocation
          h,      \* the caller's handle: [st, hv]
          proc,   \* "running" | "panicked" | "faulted" | "aborted"
          op,     \* the last operation
          res,    \* what it returned: "Ok" | "Err" | "" (none: the process stopped)
          pre,    \* the handle, its bytes and the operation before the last one
          log,    \* the OS-level events of the last operation
          acc,    \* the last accessor call: [name, mode, pm]
          steps,  \* operations performed so far
          kp      \* the last KeyPair function called, its arguments and result

vars == <<mem, h, proc, op, res, pre, log, acc, steps, kp>>

NoHandle == Wrap(EmptyVec("bytes"), "RW", "Unlocked")
NoAcc == [name |-> "", mode |-> "", pm |-> ""]

\* The bytes a handle's slice covers: the first len bytes of its interior.
BytesOf(m, hv) == IF hv.id = NoAlloc THEN <<>> ELSE SubSeq(m[hv.id].bytes, 1, hv.len)

World(F, d) == [mem |-> mem, log |-> <<>>, st |-> "ok", rc |-> 0, ret |-> 0,
                fails |-> F, dbg |-> d]

ProcOf(st) == CASE st = "ok" -> "running"
                [] st = "panic" -> "panicked"
                [] st = "fault" -> "faulted"
                [] OTHER -> "aborted"

\* ---------------------------------------------------------- keypair.rs
\* The key size, 32 in the source, scaled down.
CRYPTO_BOX_PUBLICKEYBYTES == 3
CRYPTO_BOX_SECRETKEYBYTES == CRYPTO_BOX_PUBLICKEYBYTES

\* 0x80
HighBitMask == 128

\* u8 values at both ends of the range and on both sides of the high bit.
KeyBytes == {0, 1, HighBitMask - 1, HighBitMask, 2 * HighBitMask - 1}
Keys == [1..CRYPTO_BOX_PUBLICKEYBYTES -> KeyBytes]

\* a & b on unsigned integers
RECURSIVE BitAnd(_, _)
BitAnd(a, b) ==
    IF a = 0 \/ b = 0 THEN 0
    ELSE (a % 2) * (b % 2) + 2 * BitAnd(a \div 2, b \div 2)

\* const ZERO_POINT: [u8; CRYPTO_BOX_PUBLICKEYBYTES] = [0u8; ..]
ZERO_POINT == SeqOf(0, CRYPTO_BOX_PUBLICKEYBYTES)

\* A predicate that tests the high bit of the first byte.
is_valid_public_keyFirstByte(key) ==
    IF key = ZERO_POINT THEN FALSE
    ELSE IF BitAnd(key[1], HighBitMask) # 0 THEN FALSE
    ELSE TRUE

\* A predicate that also rejects the keys with a single 1 in byte 0.
is_valid_public_keyRejectsOne(key) ==
    IF key = ZERO_POINT \/ key = [ZERO_POINT EXCEPT ![1] = 1] THEN FALSE
    ELSE IF BitAnd(key[CRYPTO_BOX_PUBLICKEYBYTES], HighBitMask) # 0 THEN FALSE
    ELSE TRUE

\* KeyPair::is_valid_public_key
is_valid_public_key(key) ==
    IF key = ZERO_POINT THEN FALSE
    ELSE IF BitAnd(key[CRYPTO_BOX_PUBLICKEYBYTES], HighBitMask) # 0 THEN FALSE
    ELSE TRUE

\* classic::crypto_core::crypto_core_ed25519_is_valid_point_relaxed: it
\* rejects the all-zero key and the identity point; any other encoding is
\* taken as a point here.
crypto_core_ed25519_is_valid_point_relaxed(key) ==
    /\ key # ZERO_POINT
    /\ key # [ZERO_POINT EXCEPT ![1] = 1]

\* KeyPair::is_valid_ed25519_key
is_valid_ed25519_key(key) == crypto_core_ed25519_is_valid_point_relaxed(key)

\* impl TryFrom<&[u8]> for HeapByteArray<LENGTH>
try_from(w, src, LENGTH) ==
    IF Len(src) # LENGTH
    THEN [w EXCEPT !.ret = [tag |-> "Err", b |-> EmptyVec("array")]]
    ELSE Then(HeapByteArrayDefault(w, LENGTH),
              LAMBDA w1 :
                  IF w1.st # "ok" THEN w1
                  ELSE [Store(w1, w1.ret.id, 0, src, "copy")
                        EXCEPT !.ret = [tag |-> "Ok", b |-> w1.ret]])

KeyPairErr(msg) == [tag |-> msg, public_key |-> EmptyVec("array"),
                    secret_key |-> EmptyVec("array")]

\* An import that converts the public key only and takes the secret slice
\* as it is when its length is wrong.
from_slicesChecksPublicOnly(w, public_key, secret_key) ==
    Then(try_from(w, public_key, CRYPTO_BOX_PUBLICKEYBYTES),
         LAMBDA w1 :
             IF w1.st # "ok" THEN w1
             ELSE IF w1.ret.tag = "Err"
             THEN [w1 EXCEPT !.ret = KeyPairErr("invalid public key")]
             ELSE Then(try_from(w1, SubSeq(secret_key \o ZERO_POINT, 1,
                                           CRYPTO_BOX_SECRETKEYBYTES),
                                CRYPTO_BOX_SECRETKEYBYTES),
                       LAMBDA w2 :
                           IF w2.st # "ok" THEN w2
                           ELSE [w2 EXCEPT !.ret =
                                    [tag |-> "Ok", public_key |-> w1.ret.b,
                                     secret_key |-> w2.ret.b]]))

\* KeyPair::from_slices: the fields are built in order, public key first;
\* when the secret key's conversion fails the public key already built is
\* dropped.
from_slices(w, public_key, secret_key) ==
    Then(try_from(w, public_key, CRYPTO_BOX_PUBLICKEYBYTES),
         LAMBDA w1 :
             IF w1.st # "ok" THEN w1
             ELSE IF w1.ret.tag = "Err"
             THEN [w1 EXCEPT !.ret = KeyPairErr("invalid public key")]
             ELSE Then(try_from(w1, secret_key, CRYPTO_BOX_SECRETKEYBYTES),
                       LAMBDA w2 :
                           IF w2.st # "ok" THEN w2
                           ELSE IF w2.ret.tag = "Err"
                           THEN [BufferDrop(w2, w1.ret.b) EXCEPT !.ret =
                                    KeyPairErr("invalid secret key")]
                           ELSE [w2 EXCEPT !.ret =
                                    [tag |-> "Ok", public_key |-> w1.ret.b,
                                     secret_key |-> w2.ret.b]]))

\* NewByteArray::new_byte_array: an array of zeros.
new_byte_array(n) == SeqOf(0, n)

RECURSIVE Mix(_)
Mix(s) == IF s = <<>> THEN 0 ELSE Head(s) + 3 * Mix(Tail(s))

\* classic::crypto_box::crypto_box_seed_keypair_inplace: it overwrites both
\* arrays with values derived from the seed alone (a hash of the seed for
\* the secret key, the base-point multiple of it for the public key; an
\* arithmetic stand-in for both here).
crypto_box_seed_keypair_inplace(public_key, secret_key, seed) ==
    [public_key |-> [i \in DOMAIN public_key |->
                        (9 * (7 * Mix(seed) + 13 * i + Len(seed)) + 5)
                            % (2 * HighBitMask)],
     secret_key |-> [i \in DOMAIN secret_key |->
                        (7 * Mix(seed) + 13 * i + Len(seed))
                            % (2 * HighBitMask)]]

\* A derivation that feeds the previous call's argument in with the seed.
from_seedMixesLastCall(seed) ==
    crypto_box_seed_keypair_inplace(new_byte_array(CRYPTO_BOX_PUBLICKEYBYTES),
                                    new_byte_array(CRYPTO_BOX_SECRETKEYBYTES),
                                    seed \o kp.in1)

\* KeyPair::from_seed
from_seed(seed) ==
    crypto_box_seed_keypair_inplace(new_byte_array(CRYPTO_BOX_PUBLICKEYBYTES),
                                    new_byte_array(CRYPTO_BOX_SECRETKEYBYTES),
                                    seed)

\* classic::crypto_core::crypto_scalarmult_base(q, n): it overwrites q with
\* the base-point multiple of n (an arithmetic stand-in here, the one
\* crypto_box_seed_keypair_inplace uses for its public key).
crypto_scalarmult_base(q, n) ==
    [i \in DOMAIN q |-> (9 * n[i] + 5) % (2 * HighBitMask)]

\* classic::crypto_box::crypto_box_keypair_inplace: it fills the secret key
\* with random bytes and the public key with their base-point multiple.
crypto_box_keypair_inplace(public_key, secret_key, random) ==
    [public_key |-> crypto_scalarmult_base(public_key, random),
     secret_key |-> [i \in DOMAIN secret_key |-> random[i]]]

\* KeyPair::gen
gen(random) ==
    crypto_box_keypair_inplace(new_byte_array(CRYPTO_BOX_PUBLICKEYBYTES),
                               new_byte_array(CRYPTO_BOX_SECRETKEYBYTES),
                               random)

\* A derivation that clears the low bit of the secret's first byte before
\* using and storing it.
from_secret_keyClamps(secret_key) ==
    [public_key |->
         crypto_scalarmult_base(new_byte_array(CRYPTO_BOX_PUBLICKEYBYTES),
                                [secret_key EXCEPT ![1] = @ - (@ % 2)]),
     secret_key |-> [secret_key EXCEPT ![1] = @ - (@ % 2)]]

\* KeyPair::from_secret_key
from_secret_key(secret_key) ==
    [public_key |->
         crypto_scalarmult_base(new_byte_array(CRYPTO_BOX_PUBLICKEYBYTES),
                                secret_key),
     secret_key |-> secret_key]

\* subtle's ConstantTimeEq for [u8]: 0 when the lengths differ, else the
\* AND of the bytewise comparisons, none of them skipped.
RECURSIVE ct_eq(_, _)
ct_eq(a, b) ==
    IF Len(a) # Len(b) THEN 0
    ELSE IF a = <<>> THEN 1
    ELSE (IF Head(a) = Head(b) THEN 1 ELSE 0) * ct_eq(Tail(a), Tail(b))

\* An equality that compares the public keys alone.
eqPublicOnly(self, other) ==
    ct_eq(self.public_key, other.public_key) = 1

\* PartialEq for KeyPair
eq(self, other) ==
    /\ ct_eq(self.public_key, other.public_key) = 1
    /\ ct_eq(self.secret_key, other.secret_key) = 1

\* Keys that differ from one another in the first or in the last byte.
EqKeys == {ZERO_POINT, [ZERO_POINT EXCEPT ![1] = 1],
           [ZERO_POINT EXCEPT ![CRYPTO_BOX_PUBLICKEYBYTES] = 1]}
KeyPairs == [public_key : EqKeys, secret_key : EqKeys]

\* -------------------------------------------- keypair.rs, mod protected
\* Result<KeyPair<Protected<..>, Protected<..>>, io::Error>
LockedPair(tag, public_key, secret_key) ==
    [tag |-> tag, public_key |-> public_key, secret_key |-> secret_key]
LockedPairErr == LockedPair("Err", Wrap(EmptyVec("array"), "RW", "Unlocked"),
                            Wrap(EmptyVec("array"), "RW", "Unlocked"))

\* A local that is live when a call returns: it is dropped when the call
\* returned an error (the `?` returns) or panicked (unwinding), and left
\* alone when the process is gone.
DropLocal(w, hv) ==
    IF w.st \in {"fault", "abort"} THEN w
    ELSE Then(ProtectedDrop(w, Buf(hv)),
              LAMBDA w1 : [w1 EXCEPT !.ret = LockedPairErr])

\* A new_locked_keypair that forgets the public key it holds when the
\* secret key's new_locked fails.
new_locked_keypairLeaksFirst(w) ==
    Then(new_locked(w, "array", CRYPTO_BOX_PUBLICKEYBYTES),
         LAMBDA w1 :
             IF w1.st # "ok" THEN w1
             ELSE IF w1.ret.tag = "Err" THEN [w1 EXCEPT !.ret = LockedPairErr]
             ELSE Then(new_locked(w1, "array", CRYPTO_BOX_SECRETKEYBYTES),
                       LAMBDA w2 :
                           IF w2.st # "ok" THEN DropLocal(w2, w1.ret.hv)
                           ELSE IF w2.ret.tag = "Err"
                           THEN [w2 EXCEPT !.ret = LockedPairErr]
                           ELSE [w2 EXCEPT !.ret =
                                    LockedPair("Ok", w1.ret.hv, w2.ret.hv)]))

\* The two new_locked()? calls, the public key's first
\* (new_locked_keypair, and the first two lines of
\* gen_readonly_locked_keypair).
new_locked_keypair(w) ==
    Then(new_locked(w, "array", CRYPTO_BOX_PUBLICKEYBYTES),
         LAMBDA w1 :
             IF w1.st # "ok" THEN w1
             ELSE IF w1.ret.tag = "Err" THEN [w1 EXCEPT !.ret = LockedPairErr]
             ELSE Then(new_locked(w1, "array", CRYPTO_BOX_SECRETKEYBYTES),
                       LAMBDA w2 :
                           IF w2.st # "ok" \/ w2.ret.tag = "Err"
                           THEN DropLocal(w2, w1.ret.hv)
                           ELSE [w2 EXCEPT !.ret =
                                    LockedPair("Ok", w1.ret.hv, w2.ret.hv)]))

\* crypto_box_keypair_inplace(public_key.as_mut_array(),
\*                            secret_key.as_mut_array())
\* on two protected keys: the stores go through the keys' pages.
KeypairInplace(w, pair, random) ==
    IF w.st # "ok" \/ w.ret.tag = "Err" THEN w
    ELSE [Store(Store(w, pair.public_key.id, 0,
                      crypto_box_keypair_inplace(
                          BytesOf(w.mem, pair.public_key),
                          BytesOf(w.mem, pair.secret_key), random).public_key,
                      "random"),
                pair.secret_key.id, 0,
                crypto_box_keypair_inplace(
                    BytesOf(w.mem, pair.public_key),
                    BytesOf(w.mem, pair.secret_key), random).secret_key,
                "random")
          EXCEPT !.ret = pair]

\* let public_key = public_key.mprotect_readonly()?;
\* let secret_key = secret_key.mprotect_readonly()?;
NarrowBoth(w, pair) ==
    IF w.st # "ok" \/ w.ret.tag = "Err" THEN w
    ELSE Then(mprotect_readonly(w, pair.public_key),
              LAMBDA w1 :
                  IF w1.st # "ok" \/ w1.ret.tag = "Err"
                  THEN DropLocal(w1, pair.secret_key)
                  ELSE Then(mprotect_readonly(w1, pair.secret_key),
                            LAMBDA w2 :
                                IF w2.st # "ok" \/ w2.ret.tag = "Err"
                                THEN DropLocal(w2, w1.ret.hv)
                                ELSE [w2 EXCEPT !.ret =
                                         LockedPair("Ok", w1.ret.hv, w2.ret.hv)]))

\* KeyPair::gen_readonly_locked_keypair
gen_readonly_locked_keypair(w, random) ==
    Then(new_locked_keypair(w),
         LAMBDA w1 :
             Then(KeypairInplace(w1, w1.ret, random),
                  LAMBDA w2 : NarrowBoth(w2, w2.ret)))

\* KeyPair::gen_locked_keypair: new_locked_keypair()?, then
\* crypto_box_keypair_inplace on the two locked keys.
gen_locked_keypair(w, random) ==
    Then(new_locked_keypair(w),
         LAMBDA w1 : KeypairInplace(w1, w1.ret, random))

\* What the random source hands to gen.
Randoms == [1..CRYPTO_BOX_SECRETKEYBYTES -> {1, 2 * HighBitMask - 1}]

\* Slices of a byte fewer, the right size and a byte more.
SliceBytes == {0, HighBitMask}
Slices == UNION {[1..n -> SliceBytes] :
                    n \in (CRYPTO_BOX_PUBLICKEYBYTES - 1)..(CRYPTO_BOX_PUBLICKEYBYTES + 1)}
Seeds == UNION {[1..n -> {1, 2}] : n \in 1..2}

NoPair == [public_key |-> <<>>, secret_key |-> <<>>]
NoCall == [fn |-> "", in1 |-> <<>>, in2 |-> <<>>, tag |-> "", valid |-> FALSE,
           public_key |-> <<>>, secret_key |-> <<>>, again |-> FALSE,
           a |-> NoPair, b |-> NoPair,
           hpk |-> NoHandle, hsk |-> NoHandle,
           first |-> [s \in Seeds |-> NoPair]]

\* An operation that returns Result<Protected<..>, io::Error>; `input` is
\* the bytes it was given (the consumed handle's, or a constructor's
\* argument).
ReturnsFrom(w, name, input) ==
    /\ steps' = steps + 1
    /\ mem' = w.mem
    /\ log' = w.log
    /\ op' = name
    /\ pre' = [st |-> h.st, hv |-> h.hv, bytes |-> input, op |-> op]
    /\ proc' = ProcOf(w.st)
    /\ acc' = NoAcc
    /\ UNCHANGED kp
    /\ IF w.st = "ok" /\ w.ret.tag = "Ok"
       THEN h' = [st |-> "live", hv |-> w.ret.hv] /\ res' = "Ok"
       ELSE /\ h' = [st |-> "gone", hv |-> NoHandle]
            /\ res' = IF w.st = "ok" THEN "Err" ELSE ""

Returns(w, name) == ReturnsFrom(w, name, BytesOf(mem, h.hv))

\* Buffer lengths: one byte, a full page, a page and a byte.
Lengths == {1, PageSize, MaxLen}
\* Secret contents: non-zero bytes, a different value at neighbouring places
\* when there is more than one non-zero value.
Secrets(n) == {[i \in 1..n |-> ((i + k) % MaxByte) + 1] : k \in 1..MaxByte}
Debug == IF h.st = "live" /\ h.hv.len = 0 THEN BOOLEAN ELSE {FALSE}

Fresh == proc = "running" /\ h.st = "none"
Live == proc = "running" /\ h.st = "live" /\ steps < MaxSteps

NewLocked ==
    /\ Fresh
    /\ \E F \in FailPlans, kind \in {"array", "bytes"}, n \in Lengths :
          /\ kind = "bytes" => n = 1
          /\ Returns(new_locked(World(F, FALSE), kind, n), "new_locked")

ProtectedDefault ==
    /\ Fresh
    /\ \E F \in FailPlans :
          Returns(Protected_default(World(F, FALSE)), "default")

\* A HeapBytes of more than a page, every byte the same non-zero value.
LockableMlock ==
    /\ Fresh
    /\ \E F \in FailPlans :
          ReturnsFrom(HeapBytes_mlock(World(F, FALSE), MaxLen, MaxByte),
                      "lockable_mlock", SeqOf(MaxByte, MaxLen))

GenLocked ==
    /\ Fresh
    /\ \E F \in FailPlans, n \in Lengths : \E random \in Secrets(n) :
          ReturnsFrom(gen_locked(World(F, FALSE), "array", n, random), "gen_locked",
                      random)

FromSliceLocked ==
    /\ Fresh
    /\ \E F \in FailPlans, n \in Lengths, m \in Lengths : \E other \in Secrets(m) :
          /\ m \in {n, n - 1}
          /\ ReturnsFrom(from_slice_locked(World(F, FALSE), "array", n, other),
                         "from_slice_locked", other)

StackMlock ==
    /\ Fresh
    /\ \E F \in FailPlans, n \in Lengths : \E content \in Secrets(n) :
          ReturnsFrom(Stack_mlock(World(F, FALSE), content), "stack_mlock", content)

StackMprotectReadonly ==
    /\ Fresh
    /\ \E F \in FailPlans, n \in Lengths : \E content \in Secrets(n) :
          ReturnsFrom(Stack_mprotect_readonly(World(F, FALSE), content),
                      "stack_mprotect_readonly", content)

Munlock ==
    /\ Live
    /\ \E F \in FailPlans :
          Returns(munlock(World(F, FALSE), h.hv), "munlock")

Mlock ==
    /\ Live
    /\ h.hv.lm = "Unlocked"
    /\ \E F \in FailPlans :
          Returns(mlock(World(F, FALSE), h.hv), "mlock")

MprotectReadonly ==
    /\ Live
    /\ \E F \in FailPlans, d \in Debug :
          Returns(mprotect_readonly(World(F, d), h.hv), "mprotect_readonly")

MprotectReadwrite ==
    /\ Live
    /\ \E F \in FailPlans, d \in Debug :
          Returns(mprotect_readwrite(World(F, d), h.hv), "mprotect_readwrite")

MprotectNoaccess ==
    /\ Live
    /\ \E F \in FailPlans, d \in Debug :
          Returns(mprotect_noaccess(World(F, d), h.hv), "mprotect_noaccess")

Resize ==
    /\ Live
    /\ h.hv.kind = "bytes"
    /\ h.hv.pm = "RW"
    /\ \E F \in FailPlans, n \in {0} \cup Lengths, v \in 1..MaxByte :
          Returns(resize(World(F, FALSE), h.hv, n, v), "resize")

\* A read of byte i through one of the accessors the type offers.
ReadAt ==
    /\ Live
    /\ \E a \in ReadAccessors(h.hv.kind, h.hv.pm), i \in 0..(MaxLen - 1) :
          /\ i < h.hv.len
          /\ acc' = [name |-> a, mode |-> "read", pm |-> h.hv.pm]
          /\ proc' = IF Readable(World({}, FALSE), h.hv.id, i)
                     THEN "running" ELSE "faulted"
          /\ op' = "read"
          /\ res' = ""
          /\ log' = <<>>
          /\ pre' = [st |-> h.st, hv |-> h.hv, bytes |-> BytesOf(mem, h.hv),
                  op |-> op]
          /\ steps' = steps + 1
          /\ UNCHANGED <<mem, h, kp>>

\* What an operation that returns no handle leaves behind.
Leaves(w, name) ==
    /\ mem' = w.mem
    /\ log' = w.log
    /\ proc' = ProcOf(w.st)
    /\ op' = name
    /\ res' = ""
    /\ pre' = [st |-> h.st, hv |-> h.hv, bytes |-> BytesOf(mem, h.hv),
                  op |-> op]
    /\ UNCHANGED kp

\* A write of byte 0 through one of the accessors the type offers
\* (readwrite_key.as_mut_slice()[0] = 0 in the tests).
WriteAt ==
    /\ Live
    /\ h.hv.len > 0
    /\ \E a \in WriteAccessors(h.hv.kind, h.hv.pm) :
          /\ Leaves(Store(World({}, FALSE), h.hv.id, 0, <<0>>, "write"), "write")
          /\ acc' = [name |-> a, mode |-> "write", pm |-> h.hv.pm]
          /\ steps' = steps + 1
          /\ UNCHANGED h

\* The handle goes out of scope.
Release ==
    /\ proc = "running"
    /\ h.st = "live"
    /\ \E F \in FailPlans :
          /\ Leaves(ProtectedDrop(World(F, FALSE), Buf(h.hv)), "drop")
          /\ acc' = NoAcc
          /\ h' = [st |-> "gone", hv |-> NoHandle]
          /\ UNCHANGED steps

Init ==
    /\ mem = [i \in AllocIds |-> FreeSlot]
    /\ h = [st |-> "none", hv |-> NoHandle]
    /\ proc = "running"
    /\ op = "init"
    /\ res = ""
    /\ pre = [st |-> "none", hv |-> NoHandle, bytes |-> <<>>, op |-> ""]
    /\ log = <<>>
    /\ acc = NoAcc
    /\ steps = 0
    /\ kp = NoCall

Next ==
    \/ NewLocked
    \/ ProtectedDefault
    \/ LockableMlock
    \/ GenLocked
    \/ FromSliceLocked
    \/ StackMlock
    \/ StackMprotectReadonly
    \/ Munlock
    \/ Mlock
    \/ MprotectReadonly
    \/ MprotectReadwrite
    \/ MprotectNoaccess
    \/ Resize
    \/ ReadAt
    \/ WriteAt
    \/ Release

Spec == Init /\ [][Next]_vars

\* ------------------------------------------------- KeyPair's functions
\* A call that touches no memory.
PureCall(name) ==
    /\ op' = name
    /\ UNCHANGED <<mem, h, proc, res, pre, log, acc, steps>>

IsValidPublicKey ==
    /\ kp.fn = ""
    /\ \E key \in Keys :
          kp' = [kp EXCEPT !.fn = "is_valid_public_key", !.in1 = key,
                           !.valid = is_valid_public_key(key)]
    /\ PureCall("is_valid_public_key")

IsValidEd25519Key ==
    /\ kp.fn = ""
    /\ \E key \in Keys :
          kp' = [kp EXCEPT !.fn = "is_valid_ed25519_key", !.in1 = key,
                           !.valid = is_valid_ed25519_key(key)]
    /\ PureCall("is_valid_ed25519_key")

\* What from_slices hands back, read through the keys' as_slice().
Imported(w, public_key, secret_key) ==
    /\ mem' = w.mem
    /\ log' = w.log
    /\ proc' = ProcOf(w.st)
    /\ op' = "from_slices"
    /\ kp' = IF w.st # "ok"
             THEN [kp EXCEPT !.fn = "from_slices", !.in1 = public_key,
                             !.in2 = secret_key, !.tag = "none"]
             ELSE [kp EXCEPT !.fn = "from_slices", !.in1 = public_key,
                             !.in2 = secret_key, !.tag = w.ret.tag,
                             !.public_key = BytesOf(w.mem, w.ret.public_key),
                             !.secret_key = BytesOf(w.mem, w.ret.secret_key)]
    /\ UNCHANGED <<h, res, pre, acc, steps>>

FromSlices ==
    /\ kp.fn = ""
    /\ \E F \in FailPlans, public_key \in Slices, secret_key \in Slices :
          Imported(from_slices(World(F, FALSE), public_key, secret_key),
                   public_key, secret_key)

Derived(seed, pair) ==
    kp' = [kp EXCEPT !.fn = "from_seed", !.in1 = seed, !.in2 = <<>>,
                     !.tag = "Ok",
                     !.public_key = pair.public_key,
                     !.secret_key = pair.secret_key,
                     !.again = (kp.first[seed] # NoPair),
                     !.first[seed] = IF @ = NoPair THEN pair ELSE @]

FromSeed ==
    /\ proc = "running"
    /\ \E seed \in Seeds : Derived(seed, from_seed(seed))
    /\ PureCall("from_seed")

Gen ==
    /\ kp.fn = ""
    /\ \E random \in Randoms :
          kp' = [kp EXCEPT !.fn = "gen", !.in1 = random,
                           !.tag = "Ok",
                           !.public_key = gen(random).public_key,
                           !.secret_key = gen(random).secret_key]
    /\ PureCall("gen")

\* from_secret_key on a secret of the caller's, or on the secret key of the
\* keypair gen has just returned (in2 keeps that keypair's public key).
FromSecretKey ==
    /\ kp.fn \in {"", "gen"}
    /\ \E secret \in (IF kp.fn = "gen" THEN {kp.secret_key} ELSE Keys) :
          kp' = [kp EXCEPT !.fn = "from_secret_key", !.in1 = secret,
                           !.in2 = kp.public_key,
                           !.tag = "Ok",
                           !.public_key = from_secret_key(secret).public_key,
                           !.secret_key = from_secret_key(secret).secret_key]
    /\ PureCall("from_secret_key")

Eq ==
    /\ kp.fn = ""
    /\ \E self \in KeyPairs, other \in KeyPairs :
          kp' = [kp EXCEPT !.fn = "eq", !.a = self, !.b = other,
                           !.valid = eq(self, other)]
    /\ PureCall("eq")

\* What a locked-keypair constructor hands back: the two handles, and
\* the bytes they cover.
Constructed(w, name, random) ==
    /\ mem' = w.mem
    /\ log' = w.log
    /\ proc' = ProcOf(w.st)
    /\ op' = name
    /\ kp' = IF w.st # "ok"
             THEN [kp EXCEPT !.fn = name, !.in1 = random, !.tag = "none"]
             ELSE [kp EXCEPT !.fn = name, !.in1 = random, !.tag = w.ret.tag,
                             !.hpk = w.ret.public_key,
                             !.hsk = w.ret.secret_key,
                             !.public_key = BytesOf(w.mem, w.ret.public_key),
                             !.secret_key = BytesOf(w.mem, w.ret.secret_key)]
    /\ UNCHANGED <<h, res, pre, acc, steps>>

\* The environment of a constructor that makes the same OS call twice:
\* as for one operation, or the second call of a kind is refused.
KeyFailPlans == FailPlans \cup {{"mlock_again"}, {"mprotect_again"}}

NewLockedKeypair ==
    /\ kp.fn = ""
    /\ \E F \in KeyFailPlans :
          Constructed(new_locked_keypair(World(F, FALSE)),
                      "new_locked_keypair", <<>>)

GenReadonlyLockedKeypair ==
    /\ kp.fn = ""
    /\ \E F \in KeyFailPlans, random \in Randoms :
          Constructed(gen_readonly_locked_keypair(World(F, FALSE), random),
                      "gen_readonly_locked_keypair", random)

GenLockedKeypair ==
    /\ kp.fn = ""
    /\ Fresh
    /\ \E F \in KeyFailPlans, random \in Randoms :
          Constructed(gen_locked_keypair(World(F, FALSE), random),
                      "gen_locked_keypair", random)

KeyNext ==
    \/ NewLockedKeypair
    \/ GenReadonlyLockedKeypair
    \/ GenLockedKeypair
    \/ Gen
    \/ Eq
    \/ FromSecretKey
    \/ IsValidPublicKey
    \/ IsValidEd25519Key
    \/ FromSlices
    \/ FromSeed

KeySpec == Init /\ [][KeyNext]_vars

\* The locking constructors alone.
LockedNext ==
    \/ NewLocked
    \/ GenLocked
    \/ FromSliceLocked
    \/ GenLockedKeypair

LockedSpec == Init /\ [][LockedNext]_vars

\* ------------------------------------------------------------ claims
PageOfInterior(i) == ((InteriorOff + i) \div PageSize) + 1
LiveHandle == proc = "running" /\ h.st = "live"
LogIdx == DOMAIN log
FreeEvents == {k \in LogIdx : log[k].op = "free"}
HasNonZero(s) == \E i \in DOMAIN s : s[i] # 0
TransitionOps == {"munlock", "mlock", "mprotect_readonly",
                  "mprotect_readwrite", "mprotect_noaccess"}
RoundUp(n) == ((n + PageSize - 1) \div PageSize) * PageSize

\* C1: after successful protect transitions on a region of length >= 1,
\* every page that holds bytes of the handle's slice has, at the OS, the
\* permission the handle's type records.
C1_PermissionMatchesOS ==
    LiveHandle =>
        \A i \in 0..(h.hv.len - 1) :
            mem[h.hv.id].perm[PageOfInterior(i)] = h.hv.pm

\* C2: a read accessor is offered (and so called) only on a ReadOnly or
\* ReadWrite handle, a write accessor only on a ReadWrite handle, and a
\* NoAccess handle offers neither.
C2_AccessorsFollowPermission ==
    /\ acc.mode = "read" => acc.pm \in {"RO", "RW"}
    /\ acc.mode = "write" => acc.pm = "RW"
    /\ (LiveHandle /\ h.hv.pm = "NA") =>
           /\ ReadAccessors(h.hv.kind, h.hv.pm) = {}
           /\ WriteAccessors(h.hv.kind, h.hv.pm) = {}

\* C3 (as stated): when the OS call of a transition fails, the caller still
\* holds the bytes it held before the call.
C3_FailedTransitionKeepsBytes ==
    (op \in TransitionOps /\ res = "Err") =>
        /\ h.st = "live"
        /\ BytesOf(mem, h.hv) = pre.bytes

\* C3 (amended): when the OS call of a transition fails, the caller gets
\* the error alone: the consumed handle is gone, no allocation is left
\* live, and the bytes the handle covered were zero when its memory was
\* freed.
C3_FailedTransitionWipes ==
    (op \in TransitionOps /\ res = "Err") =>
        /\ h.st = "gone"
        /\ \A i \in AllocIds : ~mem[i].live
        /\ pre.hv.id # NoAlloc =>
               \E k \in FreeEvents :
                   /\ log[k].id = pre.hv.id
                   /\ AllZero(SubSeq(log[k].snap.bytes, 1, pre.hv.len))

C3_Witness ==
    /\ op = "mprotect_readonly"
    /\ res = "Err"
    /\ HasNonZero(pre.bytes)

\* C4: a release of a non-empty region widens the interior to ReadWrite,
\* then zeroes every byte, then unlocks, then deallocates, in this order;
\* and no zero-write runs on a page that is ReadOnly or NoAccess.
C4_ReleaseOrder ==
    (op = "drop" /\ pre.hv.len > 0) =>
        /\ \A k \in LogIdx : log[k].op = "zero" => log[k].rc = "ok"
        /\ proc = "running" =>
               \E a, b, c, d \in LogIdx :
                   /\ a < b /\ b < c /\ c < d
                   /\ log[a].site = "drop_mprotect" /\ log[a].arg = "RW"
                   /\ log[b].op = "zero"
                   /\ log[c].site = "drop_munlock"
                   /\ log[d].op = "free"
                   /\ \A k \in LogIdx : k < a => log[k].op \notin {"zero", "munlock", "free"}
                   /\ \A k \in LogIdx : k < b => log[k].op \notin {"munlock", "free"}
                   /\ \A k \in LogIdx : k < c => log[k].op # "free"

\* C5: when widening, zeroing or unlocking fails during a release, the
\* process stops, and no memory is deallocated with a non-zero byte in it.
ReleaseStepFailed ==
    \E k \in LogIdx :
        \/ log[k].site \in {"drop_mprotect", "drop_munlock"} /\ log[k].rc = "err"
        \/ log[k].op = "zero" /\ log[k].rc = "fault"

C5_ReleaseFailureIsFatal ==
    (op = "drop" /\ ReleaseStepFailed) =>
        /\ proc # "running"
        /\ \A k \in FreeEvents : AllZero(log[k].snap.bytes)

\* C6: when a handle is released, every byte of its interior is zero at the
\* moment the memory is freed.
C6_ReleasedMemoryIsZero ==
    op = "drop" => \A k \in FreeEvents : AllZero(log[k].snap.bytes)

\* C7: while an allocation is live, both of its guard pages are NoAccess
\* and locked.
C7_GuardPagesStayProtected ==
    \A i \in AllocIds :
        mem[i].live =>
            \A p \in {1, (mem[i].aft \div PageSize) + 1} :
                mem[i].perm[p] = "NA" /\ mem[i].lock[p]

\* C8: the byte one past the end of the interior lies in the aft guard
\* page, and the byte just before the interior lies in the fore guard page.
C8_OnePastEndIsGuard ==
    \A i \in AllocIds :
        mem[i].live =>
            /\ PageOfInterior(mem[i].size) = (mem[i].aft \div PageSize) + 1
            /\ PageOfInterior(-1) = 1

\* C9: the size reserved is the requested size rounded up to a multiple of
\* the page size (itself when it is one), plus two pages.
C9_TotalSize ==
    \A i \in AllocIds :
        mem[i].live => mem[i].total = RoundUp(mem[i].size) + 2 * PageSize

\* C10 (as stated): when posix_memalign fails, the operation returns an
\* error to its caller and the process keeps running.
AllocRefused == \E k \in LogIdx : log[k].op = "alloc" /\ log[k].rc = "err"

ConstructorOps == {"new_locked", "default", "gen_locked", "from_slice_locked",
                   "stack_mlock", "stack_mprotect_readonly"}
OsCallFailed ==
    \E k \in LogIdx :
        log[k].site \in {"mlock", "munlock", "mprotect"} /\ log[k].rc = "err"
ReleasePathFailed ==
    \E k \in LogIdx :
        \/ /\ log[k].site \in {"drop_mprotect", "drop_munlock",
                               "dealloc_munlock", "dealloc_mprotect"}
           /\ log[k].rc = "err"
        \/ log[k].op = "zero" /\ log[k].rc = "fault"

C11_OsFailureIsTypedError ==
    (op \in ConstructorOps \cup TransitionOps /\ OsCallFailed /\ ~ReleasePathFailed) =>
        /\ res = "Err"
        /\ proc = "running"

\* C12: when no OS call fails, locking a buffer succeeds with a Locked
\* handle, and unlocking the handle a lock returned succeeds with an
\* Unlocked handle of the same length whose bytes are the bytes the buffer
\* held before the lock.
LockOps == {"stack_mlock", "mlock"}
NoOsError == \A k \in LogIdx : log[k].rc = "ok"

C12_LockUnlockRoundTrip ==
    [][/\ (op' \in LockOps /\ steps' = steps + 1 /\ NoOsError') =>
              /\ res' = "Ok"
              /\ h'.hv.lm = "Locked"
       /\ (op \in LockOps /\ res = "Ok" /\ op' = "munlock"
              /\ steps' = steps + 1 /\ NoOsError') =>
              /\ res' = "Ok"
              /\ h'.hv.lm = "Unlocked"
              /\ h'.hv.len = Len(pre.bytes)
              /\ BytesOf(mem', h'.hv) = pre.bytes]_vars

C12_Witness ==
    /\ op = "munlock"
    /\ pre.op \in LockOps
    /\ pre.hv.lm = "Locked"
    /\ res = "Ok"
    /\ h.hv.len = MaxLen
    /\ HasNonZero(BytesOf(mem, h.hv))

\* C13: when no OS call fails, StackByteArray::mprotect_readonly issues its
\* mlock before its narrowing mprotect and returns a Locked, ReadOnly
\* handle whose bytes are the array's (read-only at the OS wherever the
\* narrowed range reaches); mprotect_readwrite on that handle returns a
\* Locked, ReadWrite handle with the same bytes; and a write through the
\* widened handle does not fault and lands.
C13_ProtectUnprotect ==
    /\ (op = "stack_mprotect_readonly" /\ NoOsError) =>
           /\ res = "Ok"
           /\ h.hv.pm = "RO" /\ h.hv.lm = "Locked"
           /\ BytesOf(mem, h.hv) = pre.bytes
           /\ \E a, b \in LogIdx :
                  /\ a < b
                  /\ log[a].op = "mlock" /\ log[a].site = "mlock"
                  /\ log[b].op = "mprotect" /\ log[b].arg = "RO"
                  /\ \A k \in LogIdx :
                         (log[k].op = "mprotect" /\ log[k].site = "mprotect") => k = b
           /\ \A i \in 0..(h.hv.len - 2) :
                  mem[h.hv.id].perm[PageOfInterior(i)] = "RO"
    /\ (op = "mprotect_readwrite" /\ pre.op = "stack_mprotect_readonly"
            /\ NoOsError) =>
           /\ res = "Ok"
           /\ h.hv.pm = "RW" /\ h.hv.lm = "Locked"
           /\ h.hv.id = pre.hv.id
           /\ BytesOf(mem, h.hv) = pre.bytes
    /\ (op = "write" /\ pre.op = "mprotect_readwrite") =>
           /\ proc = "running"
           /\ \A k \in LogIdx : log[k].rc = "ok"
           /\ mem[h.hv.id].bytes[1] = 0
           /\ mem[h.hv.id].perm[PageOfInterior(0)] = "RW"

C13_Witness ==
    /\ op = "mprotect_readwrite"
    /\ pre.op = "stack_mprotect_readonly"
    /\ res = "Ok"
    /\ h.hv.pm = "RW" /\ h.hv.lm = "Locked"
    /\ h.hv.len = MaxLen
    /\ HasNonZero(BytesOf(mem, h.hv))

\* C14: a successful mlock or munlock returns the same buffer with the same
\* permission parameter, and leaves the bytes and the OS permission of
\* every page of the buffer's allocation as they were; a successful
\* mprotect_readonly / _readwrite / _noaccess returns the same buffer with
\* the same lock parameter, and leaves the bytes and the OS lock state of
\* every page as they were.
LockAxisOps == {"mlock", "munlock"}
PermissionAxisOps == {"mprotect_readonly", "mprotect_readwrite",
                      "mprotect_noaccess"}
SameBuffer(a, b) ==
    a.id = b.id /\ a.len = b.len /\ a.cap = b.cap /\ a.kind = b.kind

C14_AxesAreIndependent ==
    [][/\ (op' \in LockAxisOps /\ steps' = steps + 1 /\ res' = "Ok") =>
              /\ h'.hv.pm = h.hv.pm
              /\ h'.hv.lm = IF op' = "mlock" THEN "Locked" ELSE "Unlocked"
              /\ SameBuffer(h'.hv, h.hv)
              /\ h.hv.id # NoAlloc =>
                     /\ mem'[h.hv.id].bytes = mem[h.hv.id].bytes
                     /\ mem'[h.hv.id].perm = mem[h.hv.id].perm
       /\ (op' \in PermissionAxisOps /\ steps' = steps + 1 /\ res' = "Ok") =>
              /\ h'.hv.lm = h.hv.lm
              /\ h'.hv.pm = CASE op' = "mprotect_readonly" -> "RO"
                              [] op' = "mprotect_readwrite" -> "RW"
                              [] OTHER -> "NA"
              /\ SameBuffer(h'.hv, h.hv)
              /\ h.hv.id # NoAlloc =>
                     /\ mem'[h.hv.id].bytes = mem[h.hv.id].bytes
                     /\ mem'[h.hv.id].lock = mem[h.hv.id].lock]_vars

C14_Witness ==
    /\ op = "munlock"
    /\ res = "Ok"
    /\ pre.hv.pm = "NA" /\ pre.hv.lm = "Locked"
    /\ h.hv.pm = "NA" /\ h.hv.lm = "Unlocked"
    /\ HasNonZero(BytesOf(mem, h.hv))

\* C15: mlock is applied to Unlocked handles only and munlock to Locked
\* handles only, so every munlock call a munlock transition issues is for
\* a region whose pages are pinned.
C15_LockAxisTransitions ==
    /\ op = "mlock" => pre.hv.lm = "Unlocked"
    /\ op = "munlock" => pre.hv.lm = "Locked"

\* C16: after a successful transition the returned handle is the only
\* owner of the consumed handle's buffer: that buffer's allocation is the
\* only live one, and the one OS call made on it during the transition is
\* the transition's own; every call of the consumed handle's release
\* (re-permission, zeroing, unlock, free) is on another, fresh allocation.
OwnCallSites == {"mlock", "munlock", "mprotect"}

C16_OneOwner ==
    (op \in TransitionOps /\ res = "Ok") =>
        /\ h.st = "live"
        /\ SameBuffer(h.hv, pre.hv)
        /\ \A i \in AllocIds : mem[i].live <=> i = h.hv.id
        /\ \A k \in LogIdx :
               log[k].id = h.hv.id => log[k].site \in OwnCallSites
        /\ \A k \in LogIdx :
               log[k].site \notin OwnCallSites =>
                   \/ log[k].id = NoAlloc
                   \/ /\ log[k].id # pre.hv.id
                      /\ \E a \in LogIdx :
                             /\ a <= k
                             /\ log[a].op = "alloc"
                             /\ log[a].id = log[k].id

C16_Witness ==
    /\ op = "mprotect_noaccess"
    /\ res = "Ok"
    /\ h.hv.kind = "array"
    /\ HasNonZero(BytesOf(mem, h.hv))
    /\ \E k \in LogIdx : log[k].op = "zero" /\ log[k].id # h.hv.id
    /\ \E k \in LogIdx : log[k].op = "free" /\ log[k].id # h.hv.id

\* C17: is_valid_public_key returns false for the all-zero key, false for
\* a key whose last byte has bit 7 set, and true for every other key.
IdentityPoint == [ZERO_POINT EXCEPT ![1] = 1]
LastByte(key) == key[Len(key)]

C17_IsValidPublicKey ==
    kp.fn = "is_valid_public_key" =>
        /\ AllZero(kp.in1) => ~kp.valid
        /\ LastByte(kp.in1) >= HighBitMask => ~kp.valid
        /\ (~AllZero(kp.in1) /\ LastByte(kp.in1) < HighBitMask) => kp.valid

C17_Witness ==
    /\ kp.fn = "is_valid_public_key"
    /\ kp.in1[1] >= HighBitMask
    /\ LastByte(kp.in1) = HighBitMask - 1
    /\ kp.valid

C19_FromSlices ==
    (kp.fn = "from_slices" /\ proc = "running") =>
        IF Len(kp.in1) # CRYPTO_BOX_PUBLICKEYBYTES
        THEN kp.tag = "invalid public key"
        ELSE IF Len(kp.in2) # CRYPTO_BOX_SECRETKEYBYTES
        THEN kp.tag = "invalid secret key"
        ELSE /\ kp.tag = "Ok"
             /\ kp.public_key = kp.in1
             /\ kp.secret_key = kp.in2

C19_Witness ==
    /\ kp.fn = "from_slices"
    /\ kp.tag = "Ok"
    /\ AllZero(kp.public_key)
    /\ Len(kp.public_key) = CRYPTO_BOX_PUBLICKEYBYTES
    /\ HasNonZero(kp.secret_key)

C21_PublicKeyMatchesSecret ==
    /\ kp.fn \in {"gen", "from_secret_key"} =>
           /\ Len(kp.public_key) = CRYPTO_BOX_PUBLICKEYBYTES
           /\ kp.public_key = crypto_scalarmult_base(kp.public_key, kp.secret_key)
    /\ kp.fn = "from_secret_key" =>
           /\ kp.secret_key = kp.in1
           /\ kp.in2 # <<>> => kp.public_key = kp.in2

C21_Witness ==
    /\ kp.fn = "from_secret_key"
    /\ kp.in2 # <<>>
    /\ kp.public_key = kp.in2
    /\ kp.secret_key = kp.in1
    /\ kp.public_key # kp.secret_key

\* C22: two keypairs compare equal exactly when their public keys are the
\* same bytes and their secret keys are the same bytes.
C22_EqualityIsComponentwise ==
    kp.fn = "eq" =>
        (kp.valid <=> (/\ kp.a.public_key = kp.b.public_key
                       /\ kp.a.secret_key = kp.b.secret_key))

C22_Witness ==
    /\ kp.fn = "eq"
    /\ ~kp.valid
    /\ kp.a.public_key = kp.b.public_key
    /\ HasNonZero(kp.a.public_key)
    /\ kp.a.secret_key # kp.b.secret_key
    /\ kp.a.secret_key[1] = kp.b.secret_key[1]

\* C23: when gen_readonly_locked_keypair returns Ok, both keys are Locked
\* and ReadOnly handles on two live allocations whose interior pages are
\* read-only and pinned, the secret key holds the generated bytes and the
\* public key their base-point multiple; each key was locked before any
\* byte was generated into it, every generated byte was stored without a
\* fault, each narrowing came after the last store, the public key's
\* first; and the result offers no accessor that hands out its bytes for
\* writing.
StoreEvents == {k \in LogIdx : log[k].op = "random"}
CallOn(k, site, hv) ==
    /\ log[k].site = site
    /\ log[k].id = hv.id
    /\ log[k].rc = "ok"

C23_ReadonlyLockedKeypair ==
    (kp.fn = "gen_readonly_locked_keypair" /\ kp.tag = "Ok") =>
        /\ proc = "running"
        /\ kp.hpk.id # kp.hsk.id
        /\ \A hv \in {kp.hpk, kp.hsk} :
               /\ hv.pm = "RO" /\ hv.lm = "Locked"
               /\ hv.len = CRYPTO_BOX_PUBLICKEYBYTES
               /\ mem[hv.id].live
               /\ \A i \in 0..(hv.len - 1) :
                      /\ mem[hv.id].perm[PageOfInterior(i)] = "RO"
                      /\ mem[hv.id].lock[PageOfInterior(i)]
               /\ WriteAccessors(hv.kind, hv.pm) = {}
               /\ \E l, n \in LogIdx :
                      /\ CallOn(l, "mlock", hv)
                      /\ CallOn(n, "mprotect", hv) /\ log[n].arg = "RO"
                      /\ \A k \in StoreEvents : l < k /\ k < n
        /\ kp.secret_key = kp.in1
        /\ kp.public_key = crypto_scalarmult_base(kp.public_key, kp.in1)
        /\ StoreEvents # {}
        /\ \A k \in StoreEvents : log[k].rc = "ok"
        /\ \E a, b \in LogIdx :
               /\ a < b
               /\ CallOn(a, "mprotect", kp.hpk)
               /\ CallOn(b, "mprotect", kp.hsk)

\* C24: when locking or protecting a guard page fails inside allocate, the
\* allocation is still handed out and its caller writes into it; when
\* nothing else fails, the operation that asked for the memory succeeds
\* with a live handle and the process keeps running (from_slice_locked
\* aside, which panics on a slice of the wrong length whatever the OS
\* does).  When the page-protect or unlock call of a release (Drop::drop
\* of a Protected) fails, the process does not keep running.
GuardSites == {"guard_mlock", "guard_mprotect"}
DropSites == {"drop_mprotect", "drop_munlock"}
FailedAt(S) == {k \in LogIdx : log[k].site \in S /\ log[k].rc = "err"}

GuardPageOf(off) == (off \div PageSize) + 1
DeallocCall(k, d, site, off) ==
    /\ log[k].site = site
    /\ log[k].id = log[d].id
    /\ log[k].off = off
    /\ GuardPageOf(log[k].off) = GuardPageOf(log[k].off + log[k].len - 1)
    /\ log[k].site = "dealloc_mprotect" => log[k].arg = "RW"
    /\ log[k].rc = "ok" =>
           IF site = "dealloc_munlock"
           THEN ~log[d].snap.lock[GuardPageOf(off)]
           ELSE log[d].snap.perm[GuardPageOf(off)] = "RW"

C25_DeallocateRestoresGuardPages ==
    \A d \in FreeEvents :
        /\ d > 4
        /\ DeallocCall(d - 4, d, "dealloc_munlock", 0)
        /\ DeallocCall(d - 3, d, "dealloc_mprotect", 0)
        /\ DeallocCall(d - 2, d, "dealloc_munlock", log[d].snap.aft)
        /\ DeallocCall(d - 1, d, "dealloc_mprotect", log[d].snap.aft)
        /\ log[d].snap.aft = log[d].snap.total - PageSize
        /\ \A g \in LogIdx :
               (log[g].site \in GuardSites /\ log[g].id = log[d].id /\ g < d) =>
                   log[g].off \in {0, log[d].snap.aft}
        /\ log[d].off = InteriorOff - PageSize
        /\ log[d].off = 0

C25_Witness ==
    /\ op \in TransitionOps
    /\ res = "Ok"
    /\ \E d \in FreeEvents :
           /\ log[d].snap.size > PageSize
           /\ \A k \in (d - 4)..(d - 1) : log[k].rc = "ok"
           /\ \E g \in LogIdx :
                  /\ log[g].site \in GuardSites
                  /\ log[g].id = log[d].id
                  /\ log[g].off = log[d].snap.aft

\* C26: when a non-empty Locked handle is dropped and no OS call fails,
\* the unlock is issued after the wipe, from the first byte of the
\* interior over the handle's whole length, and no interior page of the
\* allocation is pinned at the moment it is freed.
InteriorPages(a) == 2..(a.aft \div PageSize)
LockedDrop ==
    /\ op = "drop"
    /\ pre.hv.lm = "Locked"
    /\ pre.hv.len > 0
    /\ NoOsError

C26_UnlockCoversInterior ==
    LockedDrop =>
        /\ \E z, u \in LogIdx :
               /\ z < u
               /\ log[z].op = "zero" /\ log[z].id = pre.hv.id
               /\ log[z].off = 0 /\ log[z].len = pre.hv.len
               /\ log[u].site = "drop_munlock" /\ log[u].id = pre.hv.id
               /\ log[u].off = InteriorOff /\ log[u].len = pre.hv.len
               /\ \A d \in FreeEvents : u < d
        /\ \A d \in FreeEvents :
               \A p \in InteriorPages(log[d].snap) : ~log[d].snap.lock[p]

\* C27: growing a vector that lives in the guarded allocator, whether it
\* stays in its block or moves to a new one, keeps every element it had,
\* in order, and sets each added element to the fill value (a push of x is
\* the growth by one element with fill value x).  Stated for the resize
\* that has just run, and for every growth of the live vector, with any
\* fill value and any single OS call refused, that does not end the
\* process.
GrewBy(old, new, value) ==
    /\ Len(new) >= Len(old)
    /\ SubSeq(new, 1, Len(old)) = old
    /\ \A i \in (Len(old) + 1)..Len(new) : new[i] = value
Grown(w) == SubSeq(w.mem[w.ret.hv.id].bytes, 1, w.ret.hv.len)
ResizeGrew ==
    /\ op = "resize"
    /\ proc = "running"
    /\ h.hv.len > pre.hv.len

C27_GrowthPreservesElements ==
    /\ ResizeGrew =>
           \E value \in 1..MaxByte :
               GrewBy(pre.bytes, BytesOf(mem, h.hv), value)
    /\ (LiveHandle /\ h.hv.kind = "bytes") =>
           \A F \in FailPlans, n \in Lengths, value \in 0..MaxByte :
               n > h.hv.len =>
                   Then(resize(World(F, FALSE), h.hv, n, value),
                        LAMBDA w :
                            w.st = "ok" =>
                                /\ w.ret.hv.len = n
                                /\ GrewBy(BytesOf(mem, h.hv), Grown(w), value))

C27_Witness ==
    /\ ResizeGrew
    /\ pre.hv.len > 0
    /\ h.hv.id # pre.hv.id
    /\ HasNonZero(pre.bytes)
    /\ \E k \in LogIdx : log[k].op = "copy"

\* C28: after a resize has grown a Locked, ReadWrite handle and moved its
\* bytes to a new allocation, every page that holds a byte of the handle
\* is pinned.
ResizeMoved ==
    /\ ResizeGrew
    /\ pre.hv.cap > 0
    /\ h.hv.id # pre.hv.id

C28_ResizeKeepsLock ==
    (ResizeMoved /\ h.hv.lm = "Locked" /\ h.hv.pm = "RW") =>
        \A i \in 0..(h.hv.len - 1) :
            mem[h.hv.id].lock[PageOfInterior(i)]

\* C29: when a resize has moved a handle's bytes to a new allocation, the
\* old allocation was freed, after a zero-write over its interior, with
\* every byte of its interior zero.
C29_ResizeWipesOldBlock ==
    ResizeMoved =>
        \E d \in FreeEvents :
            /\ log[d].id = pre.hv.id
            /\ AllZero(log[d].snap.bytes)
            /\ \E z \in LogIdx :
                   /\ z < d
                   /\ log[z].op = "zero" /\ log[z].id = pre.hv.id

\* C30: when the OS call of a transition fails and the transition returns
\* Err, the buffer it consumed has been released before the return:
\* widened to ReadWrite, then zeroed, then unlocked, then freed, with every
\* byte of its interior zero, every interior page read-write and none
\* pinned at the free; and when a step of that release fails, the
\* transition does not return Err: the process stops.
ReleaseOf(id) ==
    \E a, b, c, d \in LogIdx :
        /\ a < b /\ b < c /\ c < d
        /\ log[a].site = "drop_mprotect" /\ log[a].arg = "RW"
        /\ log[b].op = "zero"
        /\ log[c].site = "drop_munlock"
        /\ log[d].op = "free"
        /\ \A k \in {a, b, c, d} : log[k].id = id /\ log[k].rc = "ok"
        /\ AllZero(log[d].snap.bytes)
        /\ \A p \in InteriorPages(log[d].snap) :
               /\ log[d].snap.perm[p] = "RW"
               /\ ~log[d].snap.lock[p]
ReleaseFailedOn(id) ==
    \E k \in LogIdx :
        /\ log[k].id = id
        /\ \/ log[k].site \in DropSites /\ log[k].rc = "err"
           \/ log[k].op = "zero" /\ log[k].rc = "fault"

C30_FailedTransitionReleases ==
    /\ (op \in TransitionOps /\ res = "Err" /\ pre.hv.id # NoAlloc) =>
           ReleaseOf(pre.hv.id)
    /\ (op \in TransitionOps /\ OsCallFailed /\ ReleaseFailedOn(pre.hv.id)) =>
           /\ res # "Err"
           /\ proc # "running"

\* C31: in new_locked, gen_locked, from_slice_locked and gen_locked_keypair
\* every write of random or caller-supplied bytes into a region comes
\* after a successful lock of that region, from its first byte over at
\* least the bytes written; and when a lock call of the constructor has
\* failed, no such write was made.
LockingConstructors == {"new_locked", "gen_locked", "from_slice_locked",
                        "gen_locked_keypair"}
SecretWrites == {k \in LogIdx : log[k].op \in {"random", "secret"}}
LockedBefore(k) ==
    \E l \in LogIdx :
        /\ l < k
        /\ log[l].site = "mlock" /\ log[l].rc = "ok"
        /\ log[l].id = log[k].id
        /\ log[l].off = InteriorOff
        /\ log[l].len >= log[k].off + log[k].len
        /\ \A u \in LogIdx :
               (l < u /\ u < k /\ log[u].id = log[k].id) =>
                   log[u].op # "munlock"

C31_LockedBeforeSecret ==
    op \in LockingConstructors =>
        /\ \A k \in SecretWrites : LockedBefore(k)
        /\ FailedAt({"mlock"}) # {} => SecretWrites = {}

C31_Witness ==
    /\ op = "gen_locked_keypair"
    /\ kp.tag = "Ok"
    /\ Cardinality(SecretWrites) = 2
    /\ HasNonZero(kp.secret_key)

\* C32: every page-protect call is passed the buffer's length minus one,
\* which is neither negative nor larger than the buffer; and a protect
\* transition whose buffers were allocated gets as far as that call, on
\* the handle's own slice, a handle of length zero included (the
\* subtraction does not underflow).
ProtectOps == {"mprotect_readonly", "mprotect_readwrite", "mprotect_noaccess"}
ProtectCalls == {k \in LogIdx : log[k].op = "mprotect"}
LargestBuffer == Max(2 * MaxLen, PageSize)

C32_ProtectLengthInRange ==
    /\ \A k \in ProtectCalls :
           /\ log[k].len >= 0
           /\ log[k].len < LargestBuffer
    /\ (op \in ProtectOps /\ ~AllocRefused) =>
           \E k \in ProtectCalls :
               /\ log[k].site = "mprotect"
               /\ log[k].len = LenMinusOne(pre.hv.len)
               /\ log[k].len >= 0
               /\ log[k].len <= pre.hv.len

\* C33: when new_locked_keypair, gen_locked_keypair or
\* gen_readonly_locked_keypair returns an error, every region it had
\* locked has since been widened to ReadWrite, zeroed, unlocked and freed,
\* in this order, with every byte of its interior zero, every interior
\* page read-write and none pinned at the free; every block the call
\* allocated has been freed, and no allocation is left.
KeypairConstructors == {"new_locked_keypair", "gen_locked_keypair",
                        "gen_readonly_locked_keypair"}
Acquired == {l \in LogIdx : log[l].site = "mlock" /\ log[l].rc = "ok"}
ReleaseCalls(l, before, what) ==
    {k \in (l + 1)..(before - 1) :
        /\ log[k].id = log[l].id
        /\ log[k].rc = "ok"
        /\ \/ what = "zero" /\ log[k].op = "zero"
           \/ what # "zero" /\ log[k].site = what}
ReleasedAfter(l) ==
    \E d \in {k \in FreeEvents : k > l /\ log[k].id = log[l].id} :
        /\ \A k \in (l + 1)..(d - 1) :
               log[k].id = log[l].id => log[k].op \notin {"alloc", "free"}
        /\ AllZero(log[d].snap.bytes)
        /\ \A p \in InteriorPages(log[d].snap) :
               /\ log[d].snap.perm[p] = "RW"
               /\ ~log[d].snap.lock[p]
        /\ \E c \in ReleaseCalls(l, d, "drop_munlock") :
               \E b \in ReleaseCalls(l, c, "zero") :
                   \E a \in ReleaseCalls(l, b, "drop_mprotect") :
                       log[a].arg = "RW"
FailedConstruction ==
    /\ op \in KeypairConstructors
    /\ kp.tag = "Err"
    /\ proc = "running"

C33_FailedKeypairReleasesAll ==
    FailedConstruction =>
        /\ \A l \in Acquired : ReleasedAfter(l)
        /\ \A i \in AllocIds : ~mem[i].live
        /\ Cardinality({k \in LogIdx : log[k].op = "alloc" /\ log[k].rc = "ok"})
               = Cardinality(FreeEvents)

C33_Witness ==
    /\ FailedConstruction
    /\ op = "gen_readonly_locked_keypair"
    /\ Cardinality(Acquired) = 2
    /\ Cardinality(StoreEvents) = 2
    /\ \E k \in LogIdx :
           /\ log[k].site = "mprotect" /\ log[k].rc = "err"
           /\ \E j \in LogIdx :
                  j < k /\ log[j].site = "mprotect" /\ log[j].rc = "ok"

====
